---- MODULE Spec2Model ----
(***************************************************************************)
(* A model of homework2.py: the paginated image crawler (fetch_page,       *)
(* extract_image_urls, crawl_images), the manifest writer and download     *)
(* loop (save_images, download_image, main) and sanitize_filename.         *)
(*                                                                         *)
(* Python strings are modelled as sequences of one-character strings, so   *)
(* that prefix tests, substring tests, stripping, truncation, URL joining  *)
(* and formatting are computed character by character as the code does.    *)
(* Input alphabet: ASCII without ';' and ']' (urlparse's parameter         *)
(* splitting and bracketed-host validation are not modelled).              *)
(***************************************************************************)
EXTENDS Integers, Sequences, FiniteSets, TLC

VARIABLES
    pc,              \* position of main(): which statement runs next
    max_pages,       \* crawl_images' argument
    page_num,        \* loop variable of crawl_images
    image_data_list, \* records extracted from the current page
    k,               \* position of the merge loop in image_data_list
    all_image_data,  \* crawl_images' accumulated result
    seen_urls,       \* crawl_images' dedup set
    fetchLog,        \* page indices handed to fetch_page, in call order
    pauses,          \* time.sleep(1) calls since the last fetch_page call
    scanned,         \* every record the merge loop has looked at, in order
    manifest,        \* contents written to image_data.json, one per write
    idx,             \* loop variable of save_images (enumerate, start=1)
    downloads,       \* download_image calls: [url, save_path], in call order
    success_count,   \* save_images' success counter
    xdoc,            \* extract_image_urls: the img tags of page_soup
    xbase,           \* extract_image_urls: base_url
    xi,              \* extract_image_urls: next img tag to look at
    xlist,           \* extract_image_urls: image_data_list so far
    xorigin,         \* for each record of xlist, the position of its img tag
    xpc,             \* extract_image_urls: "loop", "returned" or "raised"
    sname,           \* sanitize_filename: the argument
    sout,            \* sanitize_filename(sname)
    sout2,           \* sanitize_filename(sanitize_filename(sname))
    spc              \* "input", "once" or "twice"

vars == << pc, max_pages, page_num, image_data_list, k, all_image_data,
           seen_urls, fetchLog, pauses, scanned, manifest, idx, downloads,
           success_count, xdoc, xbase, xi, xlist, xorigin, xpc,
           sname, sout, sout2, spc >>

crawlVars == << pc, max_pages, page_num, image_data_list, k, all_image_data,
                seen_urls, fetchLog, pauses, scanned, manifest, idx,
                downloads, success_count >>
extractVars == << xdoc, xbase, xi, xlist, xorigin, xpc >>
sanitizeVars == << sname, sout, sout2, spc >>

----------------------------------------------------------------------------
(* Python str operations on character sequences.                           *)

LOWERCASE == <<"a","b","c","d","e","f","g","h","i","j","k","l","m","n","o","p","q","r","s","t","u","v","w","x","y","z">>
UPPERCASE == <<"A","B","C","D","E","F","G","H","I","J","K","L","M","N","O","P","Q","R","S","T","U","V","W","X","Y","Z">>
DIGITS == <<"0","1","2","3","4","5","6","7","8","9">>

Range(s) == { s[i] : i \in 1..Len(s) }

\* s[:n]
Take(s, n) == IF n >= Len(s) THEN s ELSE SubSeq(s, 1, n)

\* s[n:]
Drop(s, n) == IF n >= Len(s) THEN << >> ELSE SubSeq(s, n + 1, Len(s))

\* s.startswith(p)
StartsWith(s, p) == Len(s) >= Len(p) /\ SubSeq(s, 1, Len(p)) = p

\* s.endswith(p)
EndsWith(s, p) ==
    Len(s) >= Len(p) /\ SubSeq(s, Len(s) - Len(p) + 1, Len(s)) = p

\* w in s
Contains(s, w) ==
    \E i \in 1..(Len(s) - Len(w) + 1) : SubSeq(s, i, i + Len(w) - 1) = w

\* position (from 1) of the first character of s that is in cs; 0 if none
Find(s, cs) ==
    IF \E i \in 1..Len(s) : s[i] \in cs
    THEN CHOOSE i \in 1..Len(s) :
             s[i] \in cs /\ \A j \in 1..(i - 1) : s[j] \notin cs
    ELSE 0

\* position (from 1) of the last character of s that is in cs; 0 if none
RFind(s, cs) ==
    IF \E i \in 1..Len(s) : s[i] \in cs
    THEN CHOOSE i \in 1..Len(s) :
             s[i] \in cs /\ \A j \in (i + 1)..Len(s) : s[j] \notin cs
    ELSE 0

LowerChar(c) ==
    IF c \in Range(UPPERCASE)
    THEN LOWERCASE[CHOOSE i \in 1..26 : UPPERCASE[i] = c]
    ELSE c

\* s.lower()
Lower(s) == IF s = << >> THEN << >> ELSE [i \in 1..Len(s) |-> LowerChar(s[i])]

\* s.lstrip(cs)
LStrip(s, cs) ==
    IF \A i \in 1..Len(s) : s[i] \in cs
    THEN << >>
    ELSE Drop(s, (CHOOSE i \in 1..Len(s) :
                     s[i] \notin cs /\ \A j \in 1..(i - 1) : s[j] \in cs) - 1)

\* s.rstrip(cs)
RStrip(s, cs) ==
    IF \A i \in 1..Len(s) : s[i] \in cs
    THEN << >>
    ELSE Take(s, CHOOSE i \in 1..Len(s) :
                     s[i] \notin cs /\ \A j \in (i + 1)..Len(s) : s[j] \in cs)

\* s.strip(cs)
Strip(s, cs) == RStrip(LStrip(s, cs), cs)

\* the characters str.strip() removes when called without an argument
WHITESPACE == { " ", "\t", "\n", "\r" }

\* s with every character of cs removed (str.replace(b, "") for each b)
Remove(s, cs) == SelectSeq(s, LAMBDA c : c \notin cs)

\* s.split(c): the pieces of s between occurrences of c
RECURSIVE Split(_, _)
Split(s, c) ==
    LET i == Find(s, {c})
    IN  IF i = 0 THEN << s >>
        ELSE << Take(s, i - 1) >> \o Split(Drop(s, i), c)

\* c.join(parts)
RECURSIVE Join(_, _)
Join(parts, c) ==
    IF parts = << >> THEN << >>
    ELSE IF Len(parts) = 1 THEN parts[1]
    ELSE parts[1] \o << c >> \o Join(Tail(parts), c)

\* str(n) for n >= 0
RECURSIVE Str(_)
Str(n) == IF n < 10 THEN << DIGITS[n + 1] >>
          ELSE Str(n \div 10) \o << DIGITS[(n % 10) + 1] >>

\* f"{n:04d}": str(n) padded with zeros on the left to at least 4 characters
Pad04d(n) ==
    LET d == Str(n)
    IN  IF Len(d) >= 4 THEN d ELSE [i \in 1..(4 - Len(d)) |-> "0"] \o d

----------------------------------------------------------------------------
(* urllib.parse as homework2.py calls it: urlparse(img_url).path and       *)
(* urljoin(base_url, img_url).                                             *)

SCHEME_CHARS == Range(LOWERCASE) \cup Range(UPPERCASE) \cup Range(DIGITS)
                    \cup { "+", "-", "." }

\* leading characters urlsplit strips (C0 controls and space)
C0_CONTROL_OR_SPACE == { " ", "\t", "\n", "\r" }

\* characters urlsplit removes wherever they stand
UNSAFE_URL_BYTES_TO_REMOVE == { "\t", "\r", "\n" }

USES_RELATIVE ==
    { <<>>,
      <<"f","t","p">>,
      <<"h","t","t","p">>,
      <<"g","o","p","h","e","r">>,
      <<"n","n","t","p">>,
      <<"i","m","a","p">>,
      <<"w","a","i","s">>,
      <<"f","i","l","e">>,
      <<"h","t","t","p","s">>,
      <<"s","h","t","t","p">>,
      <<"m","m","s">>,
      <<"p","r","o","s","p","e","r","o">>,
      <<"r","t","s","p">>,
      <<"r","t","s","p","s">>,
      <<"r","t","s","p","u">>,
      <<"s","f","t","p">>,
      <<"s","v","n">>,
      <<"s","v","n","+","s","s","h">>,
      <<"w","s">>,
      <<"w","s","s">> }

USES_NETLOC ==
    { <<>>,
      <<"f","t","p">>,
      <<"h","t","t","p">>,
      <<"g","o","p","h","e","r">>,
      <<"n","n","t","p">>,
      <<"t","e","l","n","e","t">>,
      <<"i","m","a","p">>,
      <<"w","a","i","s">>,
      <<"f","i","l","e">>,
      <<"m","m","s">>,
      <<"h","t","t","p","s">>,
      <<"s","h","t","t","p">>,
      <<"s","n","e","w","s">>,
      <<"p","r","o","s","p","e","r","o">>,
      <<"r","t","s","p">>,
      <<"r","t","s","p","s">>,
      <<"r","t","s","p","u">>,
      <<"r","s","y","n","c">>,
      <<"s","v","n">>,
      <<"s","v","n","+","s","s","h">>,
      <<"s","f","t","p">>,
      <<"n","f","s">>,
      <<"g","i","t">>,
      <<"g","i","t","+","s","s","h">>,
      <<"w","s">>,
      <<"w","s","s">> }

\* s up to the first c, and s after it (all of s, and nothing, without c)
BeforeChar(s, c) == IF Find(s, {c}) = 0 THEN s ELSE Take(s, Find(s, {c}) - 1)
AfterChar(s, c) == IF Find(s, {c}) = 0 THEN << >> ELSE Drop(s, Find(s, {c}))

\* _splitnetloc(url, 2) applied to what follows the "//"
NetlocOf(s) ==
    IF Find(s, { "/", "?", "#" }) = 0 THEN s
    ELSE Take(s, Find(s, { "/", "?", "#" }) - 1)
AfterNetloc(s) ==
    IF Find(s, { "/", "?", "#" }) = 0 THEN << >>
    ELSE Drop(s, Find(s, { "/", "?", "#" }) - 1)

\* urlsplit: the split at "?" and the result; it raises
\* ValueError("Invalid IPv6 URL") on a "[" in the netloc (no "]" occurs)
SplitQuery(scheme, netloc, u, fragment) ==
    [ scheme |-> scheme, netloc |-> netloc, path |-> BeforeChar(u, "?"),
      query |-> AfterChar(u, "?"), fragment |-> fragment,
      raises |-> "[" \in Range(netloc) ]

\* urlsplit: the split at "#"
SplitFragment(scheme, netloc, u) ==
    SplitQuery(scheme, netloc, BeforeChar(u, "#"), AfterChar(u, "#"))

\* urlsplit: if url[:2] == '//'
SplitNetloc(scheme, u) ==
    IF Take(u, 2) = << "/", "/" >>
    THEN SplitFragment(scheme, NetlocOf(Drop(u, 2)), AfterNetloc(Drop(u, 2)))
    ELSE SplitFragment(scheme, << >>, u)

\* urlsplit: the text before the first ":" is a scheme
HasScheme(u) ==
    /\ Find(u, {":"}) > 1
    /\ u[1] \in Range(LOWERCASE) \cup Range(UPPERCASE)
    /\ \A j \in 1..(Find(u, {":"}) - 1) : u[j] \in SCHEME_CHARS

SplitScheme(u, default_scheme) ==
    IF HasScheme(u)
    THEN SplitNetloc(Lower(BeforeChar(u, ":")), AfterChar(u, ":"))
    ELSE SplitNetloc(default_scheme, u)

\* urlsplit(url, scheme): the five components, and whether it raises
urlsplit(url, default_scheme) ==
    SplitScheme(Remove(LStrip(url, C0_CONTROL_OR_SPACE),
                       UNSAFE_URL_BYTES_TO_REMOVE),
                default_scheme)

\* urlunsplit: "//" + netloc + path, when there is a netloc or the scheme
\* takes one
WithNetloc(scheme, netloc, path) ==
    IF \/ netloc # << >>
       \/ (scheme # << >> /\ scheme \in USES_NETLOC
              /\ Take(path, 2) # << "/", "/" >>)
    THEN << "/", "/" >> \o netloc \o
         (IF path # << >> /\ Take(path, 1) # << "/" >>
          THEN << "/" >> \o path ELSE path)
    ELSE path

\* urlunsplit((scheme, netloc, path, query, fragment))
urlunsplit(scheme, netloc, path, query, fragment) ==
    (IF scheme # << >> THEN scheme \o << ":" >> ELSE << >>)
    \o WithNetloc(scheme, netloc, path)
    \o (IF query # << >> THEN << "?" >> \o query ELSE << >>)
    \o (IF fragment # << >> THEN << "#" >> \o fragment ELSE << >>)

\* the loop of urljoin over the path segments: ".." pops, "." is skipped
RECURSIVE ResolveSegments(_, _)
ResolveSegments(segments, resolved) ==
    IF segments = << >> THEN resolved
    ELSE IF Head(segments) = << ".", "." >>
    THEN ResolveSegments(Tail(segments),
             IF resolved = << >> THEN resolved
             ELSE SubSeq(resolved, 1, Len(resolved) - 1))
    ELSE IF Head(segments) = << "." >>
    THEN ResolveSegments(Tail(segments), resolved)
    ELSE ResolveSegments(Tail(segments), Append(resolved, Head(segments)))

\* segments[1:-1] = filter(None, segments[1:-1])
DropEmptyInner(segments) ==
    IF Len(segments) <= 2 THEN segments
    ELSE << segments[1] >>
         \o SelectSeq(SubSeq(segments, 2, Len(segments) - 1),
                      LAMBDA s : s # << >>)
         \o << segments[Len(segments)] >>

\* base_parts: bpath.split('/') without its last item unless that is empty
BaseParts(parts) ==
    IF parts[Len(parts)] # << >> THEN SubSeq(parts, 1, Len(parts) - 1)
    ELSE parts

\* the segments urljoin resolves
Segments(bpath, path) ==
    IF Take(path, 1) = << "/" >> THEN Split(path, "/")
    ELSE DropEmptyInner(BaseParts(Split(bpath, "/")) \o Split(path, "/"))

\* '/'.join(resolved_path) or '/'
PathOrRoot(p) == IF p = << >> THEN << "/" >> ELSE p

ResolvedPath(segments) ==
    PathOrRoot(Join(
        IF segments[Len(segments)] \in { << "." >>, << ".", "." >> }
        THEN Append(ResolveSegments(segments, << >>), << >>)
        ELSE ResolveSegments(segments, << >>),
        "/"))

\* urljoin(base, url) raises exactly when parsing url raises (the bases
\* used here parse)
urljoinRaises(base, url) ==
    base # << >> /\ url # << >> /\ urlsplit(url, << >>).raises

\* urljoin once base (b) and url (u) are parsed
JoinParsed(b, u, url) ==
    IF u.scheme # b.scheme \/ u.scheme \notin USES_RELATIVE
    THEN url
    ELSE IF u.scheme \in USES_NETLOC /\ u.netloc # << >>
    THEN urlunsplit(u.scheme, u.netloc, u.path, u.query, u.fragment)
    ELSE IF u.path = << >>
    THEN urlunsplit(u.scheme,
             IF u.scheme \in USES_NETLOC THEN b.netloc ELSE u.netloc,
             b.path,
             IF u.query = << >> THEN b.query ELSE u.query,
             u.fragment)
    ELSE urlunsplit(u.scheme,
             IF u.scheme \in USES_NETLOC THEN b.netloc ELSE u.netloc,
             ResolvedPath(Segments(b.path, u.path)),
             u.query, u.fragment)

JoinBase(b, url) == JoinParsed(b, urlsplit(url, b.scheme), url)

\* urljoin(base, url), for the calls that do not raise
urljoin(base, url) ==
    IF base = << >> THEN url
    ELSE IF url = << >> THEN base
    ELSE JoinBase(urlsplit(base, << >>), url)

\* os.path.basename(p): what follows the last "/"
basename(p) == Drop(p, RFind(p, {"/"}))

----------------------------------------------------------------------------
(* Program constants.                                                      *)

\* BASE_URL, the text before and after the "{}" placeholder
BASE_URL_HEAD == <<"h","t","t","p","s",":","/","/","w","w","w",".","s","u","c","a","i","9","9","9",".","c","o","m","/","p","i","c","/","c","a","t","e","/","2","6","5","_","3","2","4","-">>
BASE_URL_TAIL == <<".","h","t","m","l">>

\* BASE_URL.format(n)
PageUrl(n) == BASE_URL_HEAD \o Str(n) \o BASE_URL_TAIL

SAVE_DIR == <<"d","o","w","n","l","o","a","d","e","d","_","i","m","a","g","e","s">>

\* filename[:200]
MAX_FILENAME_LEN == 200

\* len(title_text) < 100
PARENT_TEXT_LIMIT == 100

\* the character class of re.sub(r'[<>:"/\\|?*]', '_', filename)
FORBIDDEN == { "<", ">", ":", "\"", "/", "\\", "|", "?", "*" }

\* ["logo", "icon", "avatar", "banner"]
BLOCKLIST ==
    { <<"l","o","g","o">>,
      <<"i","c","o","n">>,
      <<"a","v","a","t","a","r">>,
      <<"b","a","n","n","e","r">> }

\* ('.jpg', '.jpeg', '.png', '.gif', '.webp')
IMAGE_EXTENSIONS ==
    { <<".","j","p","g">>,
      <<".","j","p","e","g">>,
      <<".","p","n","g">>,
      <<".","g","i","f">>,
      <<".","w","e","b","p">> }

\* n copies of the character c
Fill(c, n) == IF n <= 0 THEN << >> ELSE [i \in 1..n |-> c]

----------------------------------------------------------------------------
(* sanitize_filename                                                       *)

\* the placeholder left out
NameOrPlaceholder_None(stripped) == stripped

\* filename.strip('. '), then "unnamed" if nothing is left, then [:200]
NameOrPlaceholder(stripped) ==
    IF stripped = << >> THEN <<"u","n","n","a","m","e","d">> ELSE stripped

\* re.sub(r'[<>:"/\\|?*]', '_', filename)
ReplaceForbidden(filename) ==
    IF filename = << >> THEN << >>
    ELSE [i \in 1..Len(filename) |->
             IF filename[i] \in FORBIDDEN THEN "_" ELSE filename[i]]

sanitize_filename(filename) ==
    Take(NameOrPlaceholder(Strip(ReplaceForbidden(filename), { ".", " " })),
         MAX_FILENAME_LEN)

----------------------------------------------------------------------------
(* extract_image_urls.  An img tag is the record of the attributes the     *)
(* code reads (the empty sequence stands for a missing or empty attribute, *)
(* which Tag.get treats alike) and parent_text, the stripped text of the   *)
(* nearest enclosing a or div (empty when there is none).                  *)

\* data-original, then data-src, then src; empty when none is set
ChosenSource(img_tag) ==
    IF img_tag.data_original # << >> THEN img_tag.data_original
    ELSE IF img_tag.data_src # << >> THEN img_tag.data_src
    ELSE img_tag.src

\* the blocklist test without .lower()
Skipped_CaseSensitive(img_url) ==
    \E skip \in BLOCKLIST : Contains(img_url, skip)

\* any(skip in img_url.lower() for skip in [...])
Skipped(img_url) == \E skip \in BLOCKLIST : Contains(Lower(img_url), skip)

\* whether the conversion to an absolute URL calls urljoin
CallsUrljoin(img_url) ==
    /\ ~StartsWith(img_url, << "/", "/" >>)
    /\ \/ StartsWith(img_url, << "/" >>)
       \/ ~StartsWith(img_url, <<"h","t","t","p">>)

\* the conversion to an absolute URL
ToAbsolute(img_url, base_url) ==
    IF StartsWith(img_url, << "/", "/" >>)
    THEN <<"h","t","t","p","s",":">> \o img_url
    ELSE IF CallsUrljoin(img_url) THEN urljoin(base_url, img_url)
    ELSE img_url

\* the title before the fallback to the file name
TitleOrParent(stripped, parent_text) ==
    IF stripped # << >> THEN stripped
    ELSE IF parent_text # << >> /\ Len(parent_text) < PARENT_TEXT_LIMIT
    THEN parent_text
    ELSE << >>

TitleFromTag(img_tag) ==
    TitleOrParent(
        Strip(IF img_tag.alt # << >> THEN img_tag.alt ELSE img_tag.title,
              WHITESPACE),
        img_tag.parent_text)

\* the record appended: url, title (or the path's basename, or image_N) and
\* filename (the path's basename, or image_N.jpg)
RecordOf(abs_url, title, base, n) ==
    [ url |-> abs_url,
      title |-> IF title # << >> THEN title
                ELSE IF base # << >> THEN base
                ELSE <<"i","m","a","g","e","_">> \o Str(n),
      filename |-> IF base # << >> THEN base
                   ELSE <<"i","m","a","g","e","_">> \o Str(n)
                            \o <<".","j","p","g">> ]

MakeRecord(img_tag, abs_url, n) ==
    RecordOf(abs_url, TitleFromTag(img_tag),
             basename(urlsplit(abs_url, << >>).path), n)

\* the rest of an iteration once the URL is absolute: urlparse raises, or
\* the record is appended
StepAbsolute(img_tag, abs_url, list) ==
    IF urlsplit(abs_url, << >>).raises
    THEN [ kind |-> "raise", list |-> list ]
    ELSE [ kind |-> "append",
           list |-> Append(list, MakeRecord(img_tag, abs_url, Len(list))) ]

\* an iteration for the chosen source img_url
StepSource(img_tag, img_url, base_url, list) ==
    IF img_url = << >> \/ Skipped(img_url)
    THEN [ kind |-> "skip", list |-> list ]
    ELSE IF CallsUrljoin(img_url) /\ urljoinRaises(base_url, img_url)
    THEN [ kind |-> "raise", list |-> list ]
    ELSE StepAbsolute(img_tag, ToAbsolute(img_url, base_url), list)

\* one iteration of the loop over the img tags: "skip" (continue), "append"
\* or "raise" (ValueError out of urljoin or urlparse), and the list after it
ExtractStep(img_tag, base_url, list) ==
    StepSource(img_tag, ChosenSource(img_tag), base_url, list)

\* the whole loop from tag i on
RECURSIVE ExtractFrom(_, _, _, _)
RECURSIVE ExtractAfter(_, _, _, _)
ExtractFrom(tags, base_url, i, list) ==
    IF i > Len(tags) THEN [ raised |-> FALSE, list |-> list ]
    ELSE ExtractAfter(tags, base_url, i, ExtractStep(tags[i], base_url, list))

ExtractAfter(tags, base_url, i, step) ==
    IF step.kind = "raise" THEN [ raised |-> TRUE, list |-> step.list ]
    ELSE ExtractFrom(tags, base_url, i + 1, step.list)

\* extract_image_urls(page_soup, base_url): the list returned, or raised
extract_image_urls(tags, base_url) == ExtractFrom(tags, base_url, 1, << >>)

----------------------------------------------------------------------------
(* The img tags the pages are built from.                                  *)

TagLazyCat ==
    [ data_original |-> <<"/","/","c","d","n",".","e","x","a","m","p","l","e",".","c","o","m","/","a",".","j","p","g">>,
      data_src |-> << >>,
      src |-> <<"/","i","m","a","g","e","s","/","l","o","g","o",".","p","n","g">>,
      alt |-> <<"C","a","t">>,
      title |-> << >>,
      parent_text |-> << >> ]

TagSameUrl ==
    [ data_original |-> << >>,
      data_src |-> << >>,
      src |-> <<"h","t","t","p","s",":","/","/","c","d","n",".","e","x","a","m","p","l","e",".","c","o","m","/","a",".","j","p","g">>,
      alt |-> << >>,
      title |-> << >>,
      parent_text |-> <<"K","i","t","t","e","n">> ]

TagRelative ==
    [ data_original |-> << >>,
      data_src |-> << >>,
      src |-> <<"x",".","j","p","g">>,
      alt |-> <<" "," ">>,
      title |-> <<"T">>,
      parent_text |-> << >> ]

TagLogo ==
    [ data_original |-> << >>,
      data_src |-> << >>,
      src |-> <<"/","i","m","a","g","e","s","/","l","o","g","o",".","p","n","g">>,
      alt |-> <<"S","i","t","e">>,
      title |-> << >>,
      parent_text |-> << >> ]

TagHttpPrefix ==
    [ data_original |-> << >>,
      data_src |-> << >>,
      src |-> <<"h","t","t","p","x",".","j","p","g">>,
      alt |-> << >>,
      title |-> <<"P","i","c">>,
      parent_text |-> << >> ]

TagBadHost ==
    [ data_original |-> << >>,
      data_src |-> << >>,
      src |-> <<"h","t","t","p",":","/","/","[">>,
      alt |-> <<"B","r","o","k","e","n">>,
      title |-> << >>,
      parent_text |-> << >> ]

TagNoSource ==
    [ data_original |-> << >>,
      data_src |-> << >>,
      src |-> << >>,
      alt |-> <<"E","m","p","t","y">>,
      title |-> << >>,
      parent_text |-> << >> ]

TagDataSrc ==
    [ data_original |-> << >>,
      data_src |-> <<"/","i","/","b",".","p","n","g">>,
      src |-> <<"i","c","o","n",".","p","n","g">>,
      alt |-> << >>,
      title |-> << >>,
      parent_text |-> Fill("p", PARENT_TEXT_LIMIT) ]

TagDataUri ==
    [ data_original |-> << >>,
      data_src |-> << >>,
      src |-> <<"d","a","t","a",":","x">>,
      alt |-> <<"I","n","l","i","n","e">>,
      title |-> << >>,
      parent_text |-> << >> ]

TagFtp ==
    [ data_original |-> << >>,
      data_src |-> << >>,
      src |-> <<"f","t","p",":","/","/","h","/","f",".","j","p","g">>,
      alt |-> << >>,
      title |-> << >>,
      parent_text |-> << >> ]

TagUpperLogo ==
    [ data_original |-> << >>,
      data_src |-> << >>,
      src |-> <<"L","O","G","O",".","p","n","g">>,
      alt |-> << >>,
      title |-> << >>,
      parent_text |-> << >> ]

TagBanner ==
    [ data_original |-> <<"x","/","B","a","n","n","e","r",".","j","p","g">>,
      data_src |-> << >>,
      src |-> <<"o","k",".","j","p","g">>,
      alt |-> << >>,
      title |-> << >>,
      parent_text |-> << >> ]

TagAvatar ==
    [ data_original |-> << >>,
      data_src |-> << >>,
      src |-> <<"h","t","t","p","s",":","/","/","h","/","a","v","a","t","a","r","/","1",".","j","p","g">>,
      alt |-> << >>,
      title |-> << >>,
      parent_text |-> << >> ]

TagTabbed ==
    [ data_original |-> << >>,
      data_src |-> << >>,
      src |-> <<"l","o","\t","g","o",".","p","n","g">>,
      alt |-> <<"T","a","b">>,
      title |-> << >>,
      parent_text |-> << >> ]

TagDotDot ==
    [ data_original |-> << >>,
      data_src |-> << >>,
      src |-> <<".",".","/","d",".","w","e","b","p","?","w","=","1">>,
      alt |-> << >>,
      title |-> <<" ","U","p"," ">>,
      parent_text |-> << >> ]

TagNoBasename ==
    [ data_original |-> << >>,
      data_src |-> << >>,
      src |-> <<"h","t","t","p","s",":","/","/","h","/">>,
      alt |-> << >>,
      title |-> << >>,
      parent_text |-> << >> ]

TagSecondNoBasename ==
    [ data_original |-> << >>,
      data_src |-> << >>,
      src |-> <<"/","/","h","/","i","/">>,
      alt |-> << >>,
      title |-> << >>,
      parent_text |-> << >> ]

TagBadHostRelative ==
    [ data_original |-> << >>,
      data_src |-> << >>,
      src |-> <<"f","t","p",":","/","/","[","x">>,
      alt |-> << >>,
      title |-> << >>,
      parent_text |-> << >> ]

----------------------------------------------------------------------------
(* main(): crawl_images, then save_images.                                 *)

\* largest max_pages explored (main passes MAX_PAGES; the loop is the same
\* for every value)
MaxPagesArg == 3

\* what find_all("img") yields on the pages a successful fetch can return
Pages ==
    { << >>,
      << TagLazyCat >>,
      << TagLazyCat, TagSameUrl >>,
      << TagSameUrl, TagRelative >>,
      << TagLogo, TagRelative >>,
      << TagHttpPrefix >>,
      << TagDotDot, TagNoBasename >>,
      << TagRelative, TagBadHost >> }

\* the membership test left out: every url counts as new
AlreadySeen_Never(img_url, seen) == FALSE

\* if img_url in seen_urls
AlreadySeen(img_url, seen) == img_url \in seen

\* insert(0, img_data) in place of append
Accept_AtFront(list, img_data) == << img_data >> \o list

\* all_image_data.append(img_data)
Accept(list, img_data) == Append(list, img_data)

\* main without its emptiness test
HasData_Always(list) == TRUE

\* if not image_data_list: return    (main)
HasData(list) == list # << >>

\* the file name save_images downloads a record to: sanitized, with ".jpg"
\* appended unless it ends in a recognized extension
WithExtension(name) ==
    IF \E ext \in IMAGE_EXTENSIONS : EndsWith(Lower(name), ext)
    THEN name ELSE name \o <<".","j","p","g">>

DownloadName(filename) == WithExtension(sanitize_filename(filename))

\* the ordinal counted from 0 (enumerate without start=1)
SavePath_FromZero(i, filename) ==
    SAVE_DIR \o << "/" >> \o Pad04d(i - 1) \o << "_" >> \o filename

\* os.path.join(SAVE_DIR, f"{idx:04d}_{filename}")
SavePath(i, filename) ==
    SAVE_DIR \o << "/" >> \o Pad04d(i) \o << "_" >> \o filename

Init ==
    /\ pc = "fetch"
    /\ max_pages \in 1..MaxPagesArg
    /\ page_num = 1
    /\ image_data_list = << >>
    /\ k = 1
    /\ all_image_data = << >>
    /\ seen_urls = {}
    /\ fetchLog = << >>
    /\ pauses = 0
    /\ scanned = << >>
    /\ manifest = << >>
    /\ idx = 1
    /\ downloads = << >>
    /\ success_count = 0
    /\ xdoc = << >> /\ xbase = << >> /\ xi = 1 /\ xlist = << >>
    /\ xorigin = << >> /\ xpc = "idle"
    /\ sname = << >> /\ sout = << >> /\ sout2 = << >> /\ spc = "idle"

\* fetch_page returns None: "continue", which skips the rest of the body,
\* time.sleep(1) included
FetchFail ==
    /\ pc = "fetch"
    /\ page_num <= max_pages
    /\ fetchLog' = Append(fetchLog, page_num)
    /\ pauses' = 0
    /\ page_num' = page_num + 1
    /\ UNCHANGED << pc, max_pages, image_data_list, k, all_image_data,
                    seen_urls, scanned, manifest, idx, downloads,
                    success_count >>
    /\ UNCHANGED << extractVars, sanitizeVars >>

\* fetch_page returns a document and extract_image_urls runs on it
FetchOk ==
    /\ pc = "fetch"
    /\ page_num <= max_pages
    /\ \E tags \in Pages :
          \E r \in { extract_image_urls(tags, PageUrl(page_num)) } :
              /\ fetchLog' = Append(fetchLog, page_num)
              /\ pauses' = 0
              /\ IF r.raised
                 THEN /\ pc' = "crawl_raised"
                      /\ UNCHANGED << image_data_list, k, scanned >>
                 ELSE /\ pc' = "merge"
                      /\ image_data_list' = r.list
                      /\ k' = 1
                      /\ scanned' = scanned \o r.list
    /\ UNCHANGED << max_pages, page_num, all_image_data, seen_urls, manifest,
                    idx, downloads, success_count >>
    /\ UNCHANGED << extractVars, sanitizeVars >>

\* the merge loop meets a url that is in seen_urls: continue
MergeSkip ==
    /\ pc = "merge"
    /\ k <= Len(image_data_list)
    /\ AlreadySeen(image_data_list[k].url, seen_urls)
    /\ k' = k + 1
    /\ UNCHANGED << pc, max_pages, page_num, image_data_list, all_image_data,
                    seen_urls, fetchLog, pauses, scanned, manifest, idx,
                    downloads, success_count >>
    /\ UNCHANGED << extractVars, sanitizeVars >>

\* the merge loop meets a new url
MergeAccept ==
    /\ pc = "merge"
    /\ k <= Len(image_data_list)
    /\ ~AlreadySeen(image_data_list[k].url, seen_urls)
    /\ seen_urls' = seen_urls \cup { image_data_list[k].url }
    /\ all_image_data' = Accept(all_image_data, image_data_list[k])
    /\ k' = k + 1
    /\ UNCHANGED << pc, max_pages, page_num, image_data_list, fetchLog,
                    pauses, scanned, manifest, idx, downloads,
                    success_count >>
    /\ UNCHANGED << extractVars, sanitizeVars >>

\* time.sleep(1) at the end of the loop body, then the next page
Sleep ==
    /\ pc = "merge"
    /\ k > Len(image_data_list)
    /\ pauses' = pauses + 1
    /\ page_num' = page_num + 1
    /\ pc' = "fetch"
    /\ UNCHANGED << max_pages, image_data_list, k, all_image_data, seen_urls,
                    fetchLog, scanned, manifest, idx, downloads,
                    success_count >>
    /\ UNCHANGED << extractVars, sanitizeVars >>

\* range(1, max_pages + 1) is exhausted: return all_image_data
CrawlReturn ==
    /\ pc = "fetch"
    /\ page_num > max_pages
    /\ pc' = "returned"
    /\ UNCHANGED << max_pages, page_num, image_data_list, k, all_image_data,
                    seen_urls, fetchLog, pauses, scanned, manifest, idx,
                    downloads, success_count >>
    /\ UNCHANGED << extractVars, sanitizeVars >>

\* main: nothing collected, return without calling save_images
MainNoData ==
    /\ pc = "returned"
    /\ ~HasData(all_image_data)
    /\ pc' = "done"
    /\ UNCHANGED << max_pages, page_num, image_data_list, k, all_image_data,
                    seen_urls, fetchLog, pauses, scanned, manifest, idx,
                    downloads, success_count >>
    /\ UNCHANGED << extractVars, sanitizeVars >>

\* save_images: os.makedirs and json.dump succeed (download is True, so the
\* early return is not taken)
WriteManifest ==
    /\ pc = "returned"
    /\ HasData(all_image_data)
    /\ manifest' = Append(manifest, all_image_data)
    /\ idx' = 1
    /\ success_count' = 0
    /\ pc' = "download"
    /\ UNCHANGED << max_pages, page_num, image_data_list, k, all_image_data,
                    seen_urls, fetchLog, pauses, scanned, downloads >>
    /\ UNCHANGED << extractVars, sanitizeVars >>

\* save_images: os.makedirs or open raises; nothing catches it
WriteManifestFail ==
    /\ pc = "returned"
    /\ HasData(all_image_data)
    /\ pc' = "save_raised"
    /\ UNCHANGED << max_pages, page_num, image_data_list, k, all_image_data,
                    seen_urls, fetchLog, pauses, scanned, manifest, idx,
                    downloads, success_count >>
    /\ UNCHANGED << extractVars, sanitizeVars >>

\* one iteration of the download loop; download_image returns ok
Download ==
    /\ pc = "download"
    /\ idx <= Len(all_image_data)
    /\ \E ok \in BOOLEAN :
          /\ downloads' = Append(downloads,
                 [ url |-> all_image_data[idx].url,
                   save_path |-> SavePath(idx,
                       DownloadName(all_image_data[idx].filename)) ])
          /\ success_count' = IF ok THEN success_count + 1 ELSE success_count
    /\ idx' = idx + 1
    /\ UNCHANGED << pc, max_pages, page_num, image_data_list, k,
                    all_image_data, seen_urls, fetchLog, pauses, scanned,
                    manifest >>
    /\ UNCHANGED << extractVars, sanitizeVars >>

\* the download loop is exhausted: save_images and main return
SaveReturn ==
    /\ pc = "download"
    /\ idx > Len(all_image_data)
    /\ pc' = "done"
    /\ UNCHANGED << max_pages, page_num, image_data_list, k, all_image_data,
                    seen_urls, fetchLog, pauses, scanned, manifest, idx,
                    downloads, success_count >>
    /\ UNCHANGED << extractVars, sanitizeVars >>

Next ==
    \/ FetchFail
    \/ FetchOk
    \/ MergeSkip
    \/ MergeAccept
    \/ Sleep
    \/ CrawlReturn
    \/ MainNoData
    \/ WriteManifest
    \/ WriteManifestFail
    \/ Download
    \/ SaveReturn

Spec == Init /\ [][Next]_vars

----------------------------------------------------------------------------
(* extract_image_urls on its own, one loop iteration at a time.            *)

\* most img tags on a page
MaxTags == 2

ExtractTags ==
    { TagLazyCat, TagSameUrl, TagRelative, TagLogo,
      TagHttpPrefix, TagBadHost, TagNoSource, TagDataSrc,
      TagDataUri, TagFtp, TagUpperLogo, TagBanner,
      TagAvatar, TagTabbed, TagDotDot, TagNoBasename,
      TagSecondNoBasename, TagBadHostRelative }

\* the pages: every sequence of at most MaxTags of the tags
Documents == UNION { [1..n -> ExtractTags] : n \in 0..MaxTags }

\* base_url: the URLs of the first and of the last page crawl_images passes
ExtractBases == { PageUrl(1), PageUrl(MaxPagesArg) }

ExtractInit ==
    /\ xdoc \in Documents
    /\ xbase \in ExtractBases
    /\ xi = 1
    /\ xlist = << >>
    /\ xorigin = << >>
    /\ xpc = "loop"
    /\ pc = "idle" /\ max_pages = 0 /\ page_num = 1
    /\ image_data_list = << >> /\ k = 1 /\ all_image_data = << >>
    /\ seen_urls = {} /\ fetchLog = << >> /\ pauses = 0 /\ scanned = << >>
    /\ manifest = << >> /\ idx = 1 /\ downloads = << >>
    /\ success_count = 0
    /\ sname = << >> /\ sout = << >> /\ sout2 = << >> /\ spc = "idle"

\* the tag has no source, or its source is on the blocklist: continue
ExtractSkip ==
    /\ xpc = "loop"
    /\ xi <= Len(xdoc)
    /\ ExtractStep(xdoc[xi], xbase, xlist).kind = "skip"
    /\ xi' = xi + 1
    /\ UNCHANGED << xdoc, xbase, xlist, xorigin, xpc >>
    /\ UNCHANGED << crawlVars, sanitizeVars >>

\* the tag yields a record
ExtractAppend ==
    /\ xpc = "loop"
    /\ xi <= Len(xdoc)
    /\ ExtractStep(xdoc[xi], xbase, xlist).kind = "append"
    /\ xlist' = ExtractStep(xdoc[xi], xbase, xlist).list
    /\ xorigin' = Append(xorigin, xi)
    /\ xi' = xi + 1
    /\ UNCHANGED << xdoc, xbase, xpc >>
    /\ UNCHANGED << crawlVars, sanitizeVars >>

\* urljoin or urlparse raises ValueError; extract_image_urls does not catch
ExtractRaise ==
    /\ xpc = "loop"
    /\ xi <= Len(xdoc)
    /\ ExtractStep(xdoc[xi], xbase, xlist).kind = "raise"
    /\ xpc' = "raised"
    /\ UNCHANGED << xdoc, xbase, xi, xlist, xorigin >>
    /\ UNCHANGED << crawlVars, sanitizeVars >>

\* return image_data_list
ExtractReturn ==
    /\ xpc = "loop"
    /\ xi > Len(xdoc)
    /\ xpc' = "returned"
    /\ UNCHANGED << xdoc, xbase, xi, xlist, xorigin >>
    /\ UNCHANGED << crawlVars, sanitizeVars >>

ExtractNext ==
    \/ ExtractSkip
    \/ ExtractAppend
    \/ ExtractRaise
    \/ ExtractReturn

SpecExtract == ExtractInit /\ [][ExtractNext]_vars

----------------------------------------------------------------------------
(* sanitize_filename on its own, applied once and then to its own result.  *)

\* longest prefix and suffix put around the run of equal characters
MaxAffixLen == 2

SanitizeAlphabet == { ".", " ", "a", "/" }

Affixes == UNION { [1..n -> SanitizeAlphabet] : n \in 0..MaxAffixLen }

\* lengths of the run: none, and those that put the end of the argument
\* around the 200th character
FillLens == { 0 } \cup
            ((MAX_FILENAME_LEN - MaxAffixLen)..(MAX_FILENAME_LEN + 1))

\* the characters the pattern of re.sub names, as arguments contain them
SanitizeSpecials == { "<", ">", ":", "\"", "/", "\\", "|", "?", "*" }

\* the arguments with a run of equal characters between a prefix and a suffix
RunInputs ==
    { p \o Fill(c, n) \o s :
          p \in Affixes, c \in { "a", "." }, n \in FillLens, s \in Affixes }

\* the arguments with one special character between a prefix and a suffix
SpecialInputs ==
    { p \o << c >> \o s :
          p \in Affixes, c \in SanitizeSpecials, s \in Affixes }

SanitizeInit ==
    /\ (sname \in RunInputs \/ sname \in SpecialInputs)
    /\ sout = << >>
    /\ sout2 = << >>
    /\ spc = "input"
    /\ pc = "idle" /\ max_pages = 0 /\ page_num = 1
    /\ image_data_list = << >> /\ k = 1 /\ all_image_data = << >>
    /\ seen_urls = {} /\ fetchLog = << >> /\ pauses = 0 /\ scanned = << >>
    /\ manifest = << >> /\ idx = 1 /\ downloads = << >>
    /\ success_count = 0
    /\ xdoc = << >> /\ xbase = << >> /\ xi = 1 /\ xlist = << >>
    /\ xorigin = << >> /\ xpc = "idle"

\* sanitize_filename(sname)
SanitizeOnce ==
    /\ spc = "input"
    /\ sout' = sanitize_filename(sname)
    /\ spc' = "once"
    /\ UNCHANGED << sname, sout2 >>
    /\ UNCHANGED << crawlVars, extractVars >>

\* sanitize_filename applied to the result
SanitizeTwice ==
    /\ spc = "once"
    /\ sout2' = sanitize_filename(sout)
    /\ spc' = "twice"
    /\ UNCHANGED << sname, sout >>
    /\ UNCHANGED << crawlVars, extractVars >>

SanitizeNext ==
    \/ SanitizeOnce
    \/ SanitizeTwice

SpecSanitize == SanitizeInit /\ [][SanitizeNext]_vars

----------------------------------------------------------------------------
(* Properties of crawl_images (checked under Spec).                        *)

\* the urls of a sequence of records
Urls(list) == { list[i].url : i \in 1..Len(list) }

\* how many records of scanned the merge loop has been through
Merged ==
    IF pc = "merge" THEN Len(scanned) - Len(image_data_list) + (k - 1)
    ELSE Len(scanned)

\* s with every record dropped whose url an earlier record of s carries
RECURSIVE FirstSeen(_)
FirstSeen(s) ==
    IF s = << >> THEN << >>
    ELSE IF s[Len(s)].url \in Urls(SubSeq(s, 1, Len(s) - 1))
    THEN FirstSeen(SubSeq(s, 1, Len(s) - 1))
    ELSE Append(FirstSeen(SubSeq(s, 1, Len(s) - 1)), s[Len(s)])

\* the crawl loop has been left, by return or by an exception
CrawlOver == pc \in { "crawl_raised", "returned", "save_raised", "download",
                      "done" }

\* C1: at every point of crawl_images and in what it returns, no two
\* accepted records carry the same url, and seen_urls is exactly the set of
\* urls of the records accumulated so far.
C1_GlobalDedup ==
    /\ \A i, j \in 1..Len(all_image_data) :
          i # j => all_image_data[i].url # all_image_data[j].url
    /\ seen_urls = Urls(all_image_data)

\* C1 witness: the crawl has returned at least two records and has skipped
\* at least one record whose url it had seen.
C1_Witness ==
    /\ pc = "returned"
    /\ Len(all_image_data) >= 2
    /\ Len(all_image_data) < Len(scanned)

\* C2 as claimed: whenever the crawl loop is over, exactly max_pages fetch
\* attempts have been made, one for each page index 1..max_pages in
\* increasing order.
C2_ExactlyNFetches ==
    CrawlOver => fetchLog = [i \in 1..max_pages |-> i]

\* C3 as claimed: every fetch attempt after the first is preceded by exactly
\* one pause since the fetch attempt before it.
C3_PauseBetweenFetches ==
    (pc = "fetch" /\ 1 < page_num /\ page_num <= max_pages) => pauses = 1

\* C7 as claimed: every run that completes has written the manifest exactly
\* once, a run that collected no record included.
C7_ManifestAlwaysWritten ==
    pc = "done" => Len(manifest) = 1

\* C7 as amended: the manifest is written at most once, only after every
\* page was fetched, with all collected records, and before any download
\* attempt; a completed run has written it exactly when the crawl collected
\* at least one record (with none, main returns before save_images).
C7_ManifestOnceIfData ==
    /\ Len(manifest) <= 1
    /\ manifest # << >> =>
          /\ pc \in { "download", "done" }
          /\ Len(fetchLog) = max_pages
          /\ manifest[1] = all_image_data
          /\ all_image_data # << >>
    /\ (downloads # << >> \/ pc = "download") => Len(manifest) = 1
    /\ pc = "done" => (Len(manifest) = 1 <=> all_image_data # << >>)

\* C7 witness: a completed run that wrote the manifest and then made
\* download attempts.
C7_Witness ==
    /\ pc = "done"
    /\ Len(manifest) = 1
    /\ downloads # << >>

\* C8: save_images makes one download attempt per record of the manifest,
\* in manifest order, the attempt for position i under the ordinal prefix
\* i (000i_), whatever the outcome of the earlier downloads; when it
\* returns, every record has been attempted once.
C8_OneAttemptPerRecord ==
    /\ Len(downloads) = idx - 1
    /\ \A i \in 1..Len(downloads) :
          /\ manifest # << >>
          /\ i <= Len(manifest[1])
          /\ downloads[i].url = manifest[1][i].url
          /\ StartsWith(downloads[i].save_path,
                 <<"d","o","w","n","l","o","a","d","e","d","_","i","m","a","g","e","s","/">>
                     \o << "0", "0", "0", DIGITS[i + 1], "_" >>)
    /\ (pc = "done" /\ manifest # << >>) =>
          Len(downloads) = Len(manifest[1])

\* C8 witness: save_images has returned after at least two download
\* attempts, all of which failed.
C8_Witness ==
    /\ pc = "done"
    /\ Len(downloads) >= 2
    /\ success_count = 0

\* C10: the accumulated sequence is the records scanned so far (pages by
\* increasing index, each page in the order extract_image_urls returned it)
\* with only the first occurrence of each url kept, at its place.
C10_FirstSeenOrder ==
    all_image_data = FirstSeen(Take(scanned, Merged))

\* C10 witness: the crawl has returned after it skipped a record that
\* repeats an earlier url under another title and then accepted a new url.
C10_Witness ==
    /\ pc = "returned"
    /\ \E i, j, m \in 1..Len(scanned) :
          /\ i < j /\ j < m
          /\ scanned[i].url = scanned[j].url
          /\ scanned[i].title # scanned[j].title
          /\ scanned[m].url \notin Urls(SubSeq(scanned, 1, m - 1))

----------------------------------------------------------------------------
(* Properties of extract_image_urls (checked under SpecExtract).           *)

\* s.lower() contains "logo", "icon", "avatar" or "banner"
HasBlockedWord(s) ==
    \E w \in { <<"l","o","g","o">>,
               <<"i","c","o","n">>,
               <<"a","v","a","t","a","r">>,
               <<"b","a","n","n","e","r">> } :
        Contains(Lower(s), w)

\* C4 as claimed: every record's url starts with "http://" or "https://".
C4_AbsoluteHttpUrl ==
    \A j \in 1..Len(xlist) :
        \/ StartsWith(xlist[j].url, <<"h","t","t","p",":","/","/">>)
        \/ StartsWith(xlist[j].url, <<"h","t","t","p","s",":","/","/">>)

\* C6 as claimed: no record's url, as stored after the conversion to an
\* absolute URL, contains a blocklisted word.
C6_NoBlockedWordInRecordUrl ==
    \A j \in 1..Len(xlist) : ~HasBlockedWord(xlist[j].url)

\* C6 as amended: no record comes from an img tag whose chosen source
\* attribute (data-original, else data-src, else src), as written in the
\* page, contains a blocklisted word in any letter case.
C6_NoBlockedWordInSource ==
    /\ Len(xorigin) = Len(xlist)
    /\ \A j \in 1..Len(xorigin) :
          /\ xorigin[j] \in 1..Len(xdoc)
          /\ ~HasBlockedWord(ChosenSource(xdoc[xorigin[j]]))

\* C6 witness: extract_image_urls has returned a record and has passed over
\* a tag whose source carries a blocklisted word in upper case only.
C6_Witness ==
    /\ xpc = "returned"
    /\ xlist # << >>
    /\ \E i \in 1..Len(xdoc) :
          /\ HasBlockedWord(ChosenSource(xdoc[i]))
          /\ ChosenSource(xdoc[i]) # Lower(ChosenSource(xdoc[i]))
          /\ \A j \in 1..Len(xorigin) : xorigin[j] # i

----------------------------------------------------------------------------
(* Properties of sanitize_filename (checked under SpecSanitize).           *)

\* C5 as claimed: sanitizing a sanitized name changes nothing.
C5_Idempotent ==
    spc = "twice" => sout2 = sout

\* C9: the result of sanitize_filename is never empty, never longer than
\* 200 characters and carries none of < > : " / \ | ? *.
C9_SanitizedShape ==
    spc \in { "once", "twice" } =>
        /\ sout # << >>
        /\ Len(sout) <= 200
        /\ \A i \in 1..Len(sout) :
              sout[i] \notin { "<", ">", ":", "\"", "/", "\\", "|", "?", "*" }

\* C9 witness: a name of more than 200 characters, all periods, spaces or
\* forbidden characters, has been sanitized.
C9_Witness ==
    /\ spc = "once"
    /\ Len(sname) > 200
    /\ \A i \in 1..Len(sname) : sname[i] \in { ".", " ", "/" }

====
